---------------------------- MODULE Spec2Model ----------------------------
(***************************************************************************)
(* Model of pixel_shuffle.c: the generalized Hilbert curve generator       *)
(* (gen / gilbert2d), the index mapper (precompute_indices) and the        *)
(* golden-ratio pixel shuffle (pixel_shuffle) with its progress counter    *)
(* (g_progress / get_progress).                                            *)
(*                                                                         *)
(* Buffers are sequences of 32-bit words; the word at C index k of a       *)
(* buffer is element k+1 of the sequence.                                  *)
(***************************************************************************)
EXTENDS Integers, Sequences, FiniteSets, TLC

(***************************************************************************)
(* Bounds of the model.                                                    *)
(***************************************************************************)
\* largest width and height handed to gilbert2d
MaxDim == 8

\* most pixel_shuffle calls the host chains on one image
MaxShuffles == 2

\* largest index sequence tried with every permutation and every image
MaxPixels == 3

\* largest pixel value of those images
MaxPixel == 1

\* longest single-row image (n x 1, index sequence 0 .. n-1) shuffled
MaxTotal == 32

\* largest width and height of the images shuffled along their Hilbert curve
MaxGrid == 5

\* largest of the small pixel counts the progress counter is followed on
MaxSmallTotal == 6

\* deepest nesting of gen the model follows; an invocation nested deeper is
\* recorded and cut off (a runaway recursion)
MaxDepth == 10

(***************************************************************************)
(* Utility macros and floor_div2.                                          *)
(***************************************************************************)
ABS(x) == IF x < 0 THEN -x ELSE x

SIGN(x) == IF x > 0 THEN 1 ELSE (IF x < 0 THEN -1 ELSE 0)

\* C integer division and remainder (truncation toward zero)
CDiv(a, b) ==
    IF (a < 0) = (b < 0) THEN ABS(a) \div ABS(b) ELSE -(ABS(a) \div ABS(b))

CMod(a, b) == a - b * CDiv(a, b)

\* x >> 1 on a two's complement int: floor toward minus infinity
floor_div2(x) == x \div 2

VARIABLES
    op,          \* the exported operation that returned last ("none" at start)
    pc,          \* "idle", or "loop" while pixel_shuffle is running
    width,       \* arguments of the last gilbert2d call
    height,
    curve_out,   \* the buffer curve_out points to
    curve_idx,   \* the shared write cursor
    genCalls,    \* history: the argument tuples of every gen invocation of
                 \* the last gilbert2d call
    indices,     \* the buffer idxPtr points to
    mem,         \* the pixel buffers, laid out one after the other
    totalPixels, \* arguments of the running (or last) pixel_shuffle call
    isEncrypt,
    srcPtr,      \* word offsets of the source and destination buffers in mem
    dstPtr,
    i,           \* locals of the running pixel_shuffle call
    j,
    nextReport,
    g_progress,  \* the progress counter
    written,     \* history: the offsets in mem stored to by the running (or
                 \* last) pixel_shuffle call, in order
    dirs,        \* history: isEncrypt of the pixel_shuffle calls that returned
    reads,       \* history: number of polls during the running call (up to 2)
    prevRead,    \* history: the last two values get_progress returned to
    curRead      \* the poller during the running call

curveVars == <<width, height, curve_out, curve_idx, genCalls>>
callVars == <<totalPixels, isEncrypt, srcPtr, dstPtr>>
loopVars == <<i, j, nextReport>>
pollVars == <<reads, prevRead, curRead>>

vars == <<op, pc, curveVars, indices, mem, callVars, loopVars, g_progress,
          written, dirs, pollVars>>

(***************************************************************************)
(* Hilbert curve generation.                                               *)
(***************************************************************************)
\* a slot of a freshly allocated buffer that no store has reached yet
Unwritten == -1

FreshBuffer(n) == [k \in 1..n |-> Unwritten]

\* What one gen invocation leaves behind: emit, the words it appended through
\* curve_out[curve_idx++] in order, and calls, the argument tuples of the
\* invocation and of every invocation below it.
Join(r1, r2) == [emit |-> r1.emit \o r2.emit, calls |-> r1.calls \cup r2.calls]

\* the straight run of the two base cases: n cells from (x,y) in steps
\* (dx,dy), each appended as the two words x, y
Run(x, y, dx, dy, n) ==
    [k \in 1..(2 * n) |->
        IF k % 2 = 1 THEN x + ((k - 1) \div 2) * dx
        ELSE y + ((k - 1) \div 2) * dy]

\* the parity nudge without its (extent > 2) guard
NudgeAlways(half, full) == CMod(half, 2) # 0

\* (w2 % 2) && (w > 2), and the same on h2, h
Nudge(half, full) == CMod(half, 2) # 0 /\ full > 2

\* a split decision on w > h instead of 2w > 3h
SplitOnLonger(w, h) == w > h

\* 2 * w > 3 * h: the major extent exceeds 1.5 times the minor one
SplitTwoWay(w, h) == 2 * w > 3 * h

\* a second piece as long as the first one
RestHalf(a, a2) == a2

\* ax - ax2, and the same on ay, bx, by: what the first piece leaves of a vector
Rest(a, a2) == a - a2

RECURSIVE gen(_, _, _, _, _, _, _)
gen(depth, x, y, ax, ay, bx, by) ==
    LET self == [emit |-> <<>>, calls |-> {<<x, y, ax, ay, bx, by>>}]
        w   == ABS(ax + ay)
        h   == ABS(bx + by)
        dax == SIGN(ax)
        day == SIGN(ay)
        dbx == SIGN(bx)
        dby == SIGN(by)
        ax0 == floor_div2(ax)
        ay0 == floor_div2(ay)
        bx0 == floor_div2(bx)
        by0 == floor_div2(by)
        w2  == ABS(ax0 + ay0)
        h2  == ABS(bx0 + by0)
    IN  IF depth > MaxDepth THEN self
        ELSE IF h = 1 THEN [self EXCEPT !.emit = Run(x, y, dax, day, w)]
        ELSE IF w = 1 THEN [self EXCEPT !.emit = Run(x, y, dbx, dby, h)]
        ELSE IF SplitTwoWay(w, h)
        THEN LET ax2 == IF Nudge(w2, w) THEN ax0 + dax ELSE ax0
                 ay2 == IF Nudge(w2, w) THEN ay0 + day ELSE ay0
             IN  Join(Join(self,
                           gen(depth + 1, x, y, ax2, ay2, bx, by)),
                      gen(depth + 1, x + ax2, y + ay2,
                          Rest(ax, ax2), Rest(ay, ay2), bx, by))
        ELSE LET bx2 == IF Nudge(h2, h) THEN bx0 + dbx ELSE bx0
                 by2 == IF Nudge(h2, h) THEN by0 + dby ELSE by0
             IN  Join(Join(Join(self,
                                gen(depth + 1, x, y, bx2, by2, ax0, ay0)),
                           gen(depth + 1, x + bx2, y + by2,
                               ax, ay, Rest(bx, bx2), Rest(by, by2))),
                      gen(depth + 1,
                          x + (ax - dax) + (bx2 - dbx),
                          y + (ay - day) + (by2 - dby),
                          -bx2, -by2, -Rest(ax, ax0), -Rest(ay, ay0)))

\* the stores curve_out[curve_idx++] = v of a whole run: the emitted words
\* land at the cursor's successive positions; a store past the end of the
\* buffer shows as a buffer longer than the one the caller allocated
Store(out, cursor, emit) ==
    LET last == IF Len(emit) = 0 THEN Len(out)
                ELSE IF cursor + Len(emit) > Len(out) THEN cursor + Len(emit)
                ELSE Len(out)
    IN  [k \in 1..last |->
            IF k > cursor /\ k <= cursor + Len(emit) THEN emit[k - cursor]
            ELSE IF k <= Len(out) THEN out[k]
            ELSE Unwritten]

\* a gilbert2d that forgets to reset the cursor
KeepCursor(old) == old

\* curve_idx = 0 at the start of gilbert2d
ResetCursor(old) == 0

\* the state gilbert2d(w, h, out) leaves behind when the write cursor is at
\* cursor on entry and out is a fresh buffer of 2*w*h words
gilbert2dRun(cursor, w, h) ==
    LET r  == IF w >= h THEN gen(1, 0, 0, w, 0, 0, h)
              ELSE gen(1, 0, 0, 0, h, w, 0)
        c0 == ResetCursor(cursor)
    IN  [out   |-> Store(FreshBuffer(2 * w * h), c0, r.emit),
         idx   |-> c0 + Len(r.emit),
         calls |-> r.calls]

\* the host's image of n pixels, and its buffers: the image followed by one
\* destination buffer for each pixel_shuffle call
HostImage(n) == [p \in 1..n |-> (p * p) % 3]

HostBuffers(image) ==
    image \o FreshBuffer(Len(image) * MaxShuffles)

\* gilbert2d(w, h, out); the host calls it for a new image, with freshly
\* allocated curve, index and pixel buffers
gilbert2d(w, h) ==
    LET st == gilbert2dRun(curve_idx, w, h)
    IN  /\ pc = "idle"
        /\ op' = "gilbert2d"
        /\ width' = w
        /\ height' = h
        /\ curve_out' = st.out
        /\ curve_idx' = st.idx
        /\ genCalls' = st.calls
        /\ indices' = FreshBuffer(w * h)
        /\ mem' = HostBuffers(HostImage(w * h))
        /\ dirs' = <<>>
        /\ written' = <<>>
        /\ totalPixels' = 0
        /\ isEncrypt' = 0
        /\ srcPtr' = 0
        /\ dstPtr' = 0
        /\ UNCHANGED <<pc, loopVars, g_progress, pollVars>>

(***************************************************************************)
(* Index mapping.                                                          *)
(***************************************************************************)
\* a read of word k of a buffer; outside the buffer nothing was ever stored
Peek(buf, k) == IF k >= 0 /\ k < Len(buf) THEN buf[k + 1] ELSE Unwritten

\* a store to word k of a buffer
Poke(buf, k, v) ==
    IF k >= 0 /\ k < Len(buf) THEN [buf EXCEPT ![k + 1] = v] ELSE buf

\* an index mapper that takes the pair as (y, x)
FlatIndexSwapped(x, y, w) == y + x * w

\* curvePtr[ci] + curvePtr[ci + 1] * width
FlatIndex(x, y, w) == x + y * w

\* the loop of precompute_indices over idxPtr[0 .. total-1]
precompute_indicesRun(w, total, curvePtr, idxPtr) ==
    [k \in 1..Len(idxPtr) |->
        IF k <= total
        THEN FlatIndex(Peek(curvePtr, 2 * (k - 1)),
                       Peek(curvePtr, 2 * (k - 1) + 1), w)
        ELSE idxPtr[k]]

\* precompute_indices(width, width*height, curve, indices)
precompute_indices ==
    /\ pc = "idle"
    /\ op = "gilbert2d"
    /\ op' = "precompute_indices"
    /\ indices' = precompute_indicesRun(width, width * height, curve_out, indices)
    /\ UNCHANGED <<pc, curveVars, mem, callVars, loopVars, g_progress,
                   written, dirs, pollVars>>

(***************************************************************************)
(* Pixel shuffle.                                                          *)
(***************************************************************************)
\* (int)(golden * totalPixels + 0.5) with golden = (sqrt(5) - 1) / 2, for
\* totalPixels >= 1: the integer k with k <= n(sqrt(5)-1)/2 + 1/2 < k + 1,
\* that is (2k+n-1)^2 <= 5n^2 < (2k+n+1)^2.  The double arithmetic of the code
\* gives this k for every n the model uses.
GoldenOffset(n) ==
    CHOOSE k \in (-1)..(n + 1) :
        /\ 2 * k + n - 1 >= 0
        /\ (2 * k + n - 1) * (2 * k + n - 1) <= 5 * n * n
        /\ 5 * n * n < (2 * k + n + 1) * (2 * k + n + 1)

\* int reportInterval = totalPixels / 20; if (reportInterval < 1) ... = 1
ReportInterval(n) == IF CDiv(n, 20) < 1 THEN 1 ELSE CDiv(n, 20)

\* the wrap test of the partner position off by one
PartnerOffByOne(k, offset, n) ==
    IF k + offset > n THEN k + offset - n ELSE k + offset

\* the partner position without the wrap
PartnerNoWrap(k, offset, n) == k + offset

\* int j = i + offset; if (j >= totalPixels) j -= totalPixels;
Partner(k, offset, n) ==
    IF k + offset >= n THEN k + offset - n ELSE k + offset

\* a decrypt branch that reads the source where the encrypt branch does
SourceIndexSame(enc, p1, p2) == p1

\* the source index of the copy: srcPtr[p1] when encrypting, srcPtr[p2] when
\* decrypting
SourceIndex(enc, p1, p2) == IF enc # 0 THEN p1 ELSE p2

\* the destination index of the copy: dstPtr[p2] when encrypting, dstPtr[p1]
\* when decrypting
DestIndex(enc, p1, p2) == IF enc # 0 THEN p2 ELSE p1

MaxInt32 == 2147483647

\* k * 100 for 0 <= k <= MaxInt32 as the 32-bit multiplication of the build
\* computes it: the low 32 bits of the product read as a two's complement int
\* (signed overflow has no defined result in C; the WebAssembly i32.mul the
\* module is compiled to wraps)
Times100Int32(k) ==
    LET t  == ((k \div 65536) * 100) % 65536
        hi == IF t >= 32768 THEN (t - 65536) * 65536 ELSE t * 65536
        lo == (k % 65536) * 100
    IN  IF hi > MaxInt32 - lo
        THEN (hi - MaxInt32 - 1) + (lo - MaxInt32 - 1)
        ELSE hi + lo

\* (i * 100) / totalPixels
ProgressAt(k, n) == CDiv(Times100Int32(k), n)

\* entry of pixel_shuffle(n, enc, indices, mem + src, mem + dst): the locals
\* before the loop
pixel_shuffle_call(n, enc, src, dst) ==
    /\ pc = "idle"
    /\ pc' = "loop"
    /\ totalPixels' = n
    /\ isEncrypt' = enc
    /\ srcPtr' = src
    /\ dstPtr' = dst
    /\ i' = 0
    /\ j' = 0
    /\ nextReport' = 0
    /\ written' = <<>>
    /\ reads' = 0
    /\ prevRead' = 0
    /\ curRead' = 0
    /\ UNCHANGED <<op, curveVars, indices, mem, g_progress, dirs>>

\* if (i == nextReport) { g_progress = (i * 100) / totalPixels; ... }
ReportStep ==
    IF i = nextReport
    THEN /\ g_progress' = ProgressAt(i, totalPixels)
         /\ nextReport' = nextReport + ReportInterval(totalPixels)
    ELSE UNCHANGED <<g_progress, nextReport>>

\* the copy of one loop iteration
CopyStep ==
    LET p1 == Peek(indices, i)
        jj == Partner(i, GoldenOffset(totalPixels), totalPixels)
        p2 == Peek(indices, jj)
        to == dstPtr + DestIndex(isEncrypt, p1, p2)
    IN  /\ j' = jj
        /\ mem' = Poke(mem, to,
                       Peek(mem, srcPtr + SourceIndex(isEncrypt, p1, p2)))
        /\ written' = Append(written, to)

\* one iteration of the loop of pixel_shuffle (either branch)
pixel_shuffle_iter ==
    /\ pc = "loop"
    /\ i < totalPixels
    /\ CopyStep
    /\ ReportStep
    /\ i' = i + 1
    /\ UNCHANGED <<op, pc, curveVars, indices, callVars, dirs, pollVars>>

\* g_progress = 100 and return
pixel_shuffle_return ==
    /\ pc = "loop"
    /\ i >= totalPixels
    /\ g_progress' = 100
    /\ pc' = "idle"
    /\ op' = "pixel_shuffle"
    /\ dirs' = Append(dirs, isEncrypt)
    /\ i' = 0
    /\ j' = 0
    /\ nextReport' = 0
    /\ UNCHANGED <<curveVars, indices, mem, callVars, written, pollVars>>

\* the host shuffles the indexed image: source is the image, destination the
\* buffer after it
HostShuffle(enc) ==
    /\ op = "precompute_indices"
    /\ pixel_shuffle_call(width * height, enc, 0, width * height)

\* the host shuffles the destination of the last call into the next buffer
HostReshuffle(enc) ==
    /\ op \in {"precompute_indices", "pixel_shuffle"}
    /\ Len(dirs) < MaxShuffles
    /\ pixel_shuffle_call(Len(indices), enc,
                          Len(dirs) * Len(indices),
                          (Len(dirs) + 1) * Len(indices))

(***************************************************************************)
(* The progress counter alone: pixel counts too large to follow word by    *)
(* word.  The pixel buffers are not part of this view; the iterations      *)
(* between two reports, which leave the counter alone, are one step.       *)
(***************************************************************************)
\* an everyday image, the largest count whose last report still fits, and two
\* counts past it (5000 x 5000 and 6000 x 5000)
LargeTotals == {2073600, 21474836, 25000000, 30000000}

\* the iteration with i == nextReport, seen from the progress counter
pixel_shuffle_report ==
    /\ pc = "loop"
    /\ i < totalPixels
    /\ i = nextReport
    /\ ReportStep
    /\ i' = i + 1
    /\ UNCHANGED <<op, pc, curveVars, indices, mem, callVars, j, written,
                   dirs, pollVars>>

\* the iterations up to the next one with i == nextReport (or to the end of
\* the loop)
pixel_shuffle_skip ==
    /\ pc = "loop"
    /\ i < totalPixels
    /\ i # nextReport
    /\ i' = IF nextReport < totalPixels THEN nextReport ELSE totalPixels
    /\ UNCHANGED <<op, pc, curveVars, indices, mem, callVars, j, nextReport,
                   g_progress, written, dirs, pollVars>>

\* the host calls pixel_shuffle on an image of n pixels
HostShuffleTotal(n, enc) ==
    /\ Len(dirs) < MaxShuffles
    /\ pixel_shuffle_call(n, enc, 0, n)

\* the poller calls get_progress while pixel_shuffle runs
get_progress ==
    /\ pc = "loop"
    /\ reads' = IF reads < 2 THEN reads + 1 ELSE 2
    /\ prevRead' = curRead
    /\ curRead' = g_progress
    /\ UNCHANGED <<op, pc, curveVars, indices, mem, callVars, loopVars,
                   g_progress, written, dirs>>

(***************************************************************************)
(* Specifications.                                                         *)
(***************************************************************************)
\* the state after construction, with the index and pixel buffers given
Start(idx, buffers) ==
    /\ op = IF Len(idx) = 0 THEN "none" ELSE "precompute_indices"
    /\ pc = "idle"
    /\ width = Len(idx)
    /\ height = IF Len(idx) = 0 THEN 0 ELSE 1
    /\ curve_out = <<>>
    /\ curve_idx = 0
    /\ genCalls = {}
    /\ indices = idx
    /\ mem = buffers
    /\ totalPixels = 0
    /\ isEncrypt = 0
    /\ srcPtr = 0
    /\ dstPtr = 0
    /\ i = 0
    /\ j = 0
    /\ nextReport = 0
    /\ g_progress = 0
    /\ written = <<>>
    /\ dirs = <<>>
    /\ reads = 0
    /\ prevRead = 0
    /\ curRead = 0

\* the whole pipeline on images of up to MaxDim x MaxDim pixels
Init == Start(<<>>, <<>>)

Next ==
    \/ \E w \in 1..MaxDim, h \in 1..MaxDim : gilbert2d(w, h)
    \/ precompute_indices
    \/ \E enc \in {0, 1} : HostShuffle(enc)
    \/ pixel_shuffle_iter
    \/ pixel_shuffle_return

Spec == Init /\ [][Next]_vars

\* pixel_shuffle alone, chained: on every index sequence that is a
\* permutation of 0 .. n-1 and every image for small n, on the index sequence
\* 0 .. n-1 of a single-row image for larger n, and on the index sequence
\* gilbert2d and precompute_indices give for a w x h image
IndexSequences(n) ==
    {f \in [1..n -> 0..(n - 1)] : \A a, b \in 1..n : f[a] = f[b] => a = b}

Images(n) == [1..n -> 0..MaxPixel]

CurveIndices(w, h) ==
    precompute_indicesRun(w, w * h, gilbert2dRun(0, w, h).out,
                          FreshBuffer(w * h))

InitShuffle ==
    \/ \E n \in 1..MaxPixels :
          \E idx \in IndexSequences(n), image \in Images(n) :
              Start(idx, HostBuffers(image))
    \/ \E n \in 1..MaxTotal :
          Start([k \in 1..n |-> k - 1], HostBuffers(HostImage(n)))
    \/ \E w \in 2..MaxGrid, h \in 2..MaxGrid :
          Start(CurveIndices(w, h), HostBuffers(HostImage(w * h)))

NextShuffle ==
    \/ \E enc \in {0, 1} : HostReshuffle(enc)
    \/ pixel_shuffle_iter
    \/ pixel_shuffle_return

SpecShuffle == InitShuffle /\ [][NextShuffle]_vars

\* the progress counter under a poller
NextProgress ==
    \/ \E n \in (1..MaxSmallTotal) \cup LargeTotals, enc \in {0, 1} :
          HostShuffleTotal(n, enc)
    \/ pixel_shuffle_report
    \/ pixel_shuffle_skip
    \/ pixel_shuffle_return
    \/ get_progress

SpecProgress == Init /\ [][NextProgress]_vars

(***************************************************************************)
(* Properties of the curve and of the index sequence (under Spec).         *)
(***************************************************************************)
\* the k-th coordinate pair of the curve buffer, k = 1 .. width*height
Coord(k) == <<Peek(curve_out, 2 * k - 2), Peek(curve_out, 2 * k - 1)>>

Cells == 1..(width * height)

Chebyshev(c, d) ==
    IF ABS(c[1] - d[1]) > ABS(c[2] - d[2])
    THEN ABS(c[1] - d[1]) ELSE ABS(c[2] - d[2])

\* C1: once gilbert2d(width, height) has returned, it has emitted exactly
\* width*height pairs into the buffer (cursor and buffer end at
\* 2*width*height words), the set of pairs is [0,width) x [0,height), and no
\* pair occurs twice.
C1_Coverage ==
    op # "none" =>
        /\ curve_idx = 2 * width * height
        /\ Len(curve_out) = 2 * width * height
        /\ {Coord(k) : k \in Cells} = (0..(width - 1)) \X (0..(height - 1))
        /\ \A k1, k2 \in Cells : Coord(k1) = Coord(k2) => k1 = k2

\* a 5 x 7 grid (odd extents, 3-way split with the parity nudge) covered
C1_Witness ==
    /\ op = "gilbert2d"
    /\ width = 5
    /\ height = 7
    /\ Cardinality({Coord(k) : k \in Cells}) = 35

\* C2: any two consecutive coordinates of the curve gilbert2d wrote are at
\* Chebyshev distance exactly 1.
C2_Adjacent ==
    op # "none" =>
        \A k \in Cells :
            k < width * height => Chebyshev(Coord(k), Coord(k + 1)) = 1

\* a 3-way split whose curve takes a diagonal step
C2_Witness ==
    /\ op = "gilbert2d"
    /\ width = 4
    /\ height = 5
    /\ Cardinality(genCalls) > 3
    /\ \E k \in Cells :
          /\ k < width * height
          /\ ABS(Coord(k)[1] - Coord(k + 1)[1]) = 1
          /\ ABS(Coord(k)[2] - Coord(k + 1)[2]) = 1

\* C7: once precompute_indices has run on the curve of gilbert2d(width,
\* height) with totalPixels = width*height, index[i] = x_i + y_i*width for
\* every i in order, and the index sequence is a permutation of
\* [0, width*height).
C7_IndexPermutation ==
    op \in {"precompute_indices", "pixel_shuffle"} =>
        /\ Len(indices) = width * height
        /\ \A k \in Cells : indices[k] = Coord(k)[1] + Coord(k)[2] * width
        /\ {indices[k] : k \in Cells} = 0..(width * height - 1)
        /\ \A k1, k2 \in Cells : indices[k1] = indices[k2] => k1 = k2

\* the index sequence of a 4 x 3 image, which is not the row-major order
C7_Witness ==
    /\ op = "precompute_indices"
    /\ width = 4
    /\ height = 3
    /\ Len(indices) = 12
    /\ \E k \in Cells : indices[k] # k - 1

\* what a first gilbert2d(w, h) call writes: the cursor is 0 after construction
FirstCall(w, h) == gilbert2dRun(0, w, h)

\* C8: whatever calls came before, gilbert2d(width, height) leaves the curve
\* a first call would write and the cursor at exactly 2*width*height.
C8_SameCurve ==
    op # "none" =>
        /\ curve_idx = 2 * width * height
        /\ curve_out = FirstCall(width, height).out

\* a gilbert2d call made after an earlier image went through the whole
\* pipeline (the progress counter still holds the 100 of its pixel_shuffle)
C8_Witness ==
    /\ op = "gilbert2d"
    /\ g_progress = 100
    /\ width = 3
    /\ height = 2
    /\ curve_idx = 12
    /\ curve_out = <<0, 0, 0, 1, 1, 1, 2, 1, 2, 0, 1, 0>>

\* C9: every invocation of gen made by gilbert2d has both vectors
\* axis-aligned and both extents |ax+ay| and |bx+by| at least 1.
C9_Extents ==
    /\ op # "none" => genCalls # {}
    /\ \A c \in genCalls :
          /\ c[3] = 0 \/ c[4] = 0
          /\ c[5] = 0 \/ c[6] = 0
          /\ ABS(c[3] + c[4]) >= 1
          /\ ABS(c[5] + c[6]) >= 1

\* an invocation that halves a negative odd vector: gen(.., -2, 0, 0, -3)
C9_Witness ==
    /\ op = "gilbert2d"
    /\ width = 4
    /\ height = 5
    /\ \E c \in genCalls : c[3] = -2 /\ c[4] = 0 /\ c[5] = 0 /\ c[6] = -3

(***************************************************************************)
(* Properties of pixel_shuffle (under SpecShuffle).                        *)
(***************************************************************************)
\* the k-th pixel buffer of the host (0 is the image), each Len(indices) words
Buffer(k) ==
    [p \in 1..Len(indices) |-> Peek(mem, k * Len(indices) + p - 1)]

Occurrences(buf, v) == Cardinality({p \in DOMAIN buf : buf[p] = v})

Values(buf) == {buf[p] : p \in DOMAIN buf}

\* an encrypt call followed by a decrypt call have returned
EncryptedThenDecrypted ==
    /\ pc = "idle"
    /\ Len(dirs) >= 2
    /\ dirs[Len(dirs) - 1] = 1
    /\ dirs[Len(dirs)] = 0

\* C3: pixel_shuffle with isEncrypt = 1 into a disjoint buffer followed by
\* pixel_shuffle with isEncrypt = 0 from that buffer into another one, with
\* the same index sequence, reproduces the source at every position.
C3_RoundTrip ==
    EncryptedThenDecrypted => Buffer(Len(dirs)) = Buffer(Len(dirs) - 2)

\* a round trip whose scrambled buffer differs from the source
C3_Witness ==
    /\ EncryptedThenDecrypted
    /\ Len(indices) = 3
    /\ Buffer(Len(dirs) - 1) # Buffer(Len(dirs) - 2)
    /\ Buffer(Len(dirs)) = Buffer(Len(dirs) - 2)

DstRegion == dstPtr..(dstPtr + totalPixels - 1)

\* C4: i -> p2(i) = indices[(i+offset) mod totalPixels] is a bijection on
\* [0,totalPixels); a pixel_shuffle call (either direction) stores only into
\* the destination buffer, never twice to the same word, and when it returns
\* it has stored to every destination word and the destination holds the
\* same multiset of values as the source.
C4_Bijection ==
    /\ (pc = "loop" \/ op = "pixel_shuffle") =>
          /\ {Peek(indices, Partner(k, GoldenOffset(totalPixels), totalPixels)) :
                  k \in 0..(totalPixels - 1)} = 0..(totalPixels - 1)
          /\ \A a \in DOMAIN written : written[a] \in DstRegion
          /\ \A a, b \in DOMAIN written : written[a] = written[b] => a = b
          /\ pc = "loop" => Len(written) = i
    /\ (pc = "idle" /\ op = "pixel_shuffle") =>
          /\ {written[a] : a \in DOMAIN written} = DstRegion
          /\ \A v \in Values(Buffer(Len(dirs))) \cup Values(Buffer(Len(dirs) - 1)) :
                Occurrences(Buffer(Len(dirs)), v)
                    = Occurrences(Buffer(Len(dirs) - 1), v)

\* a decrypt call on the 16 pixels of a 4 x 4 image that has returned with a
\* destination that is not a copy of its source
C4_Witness ==
    /\ pc = "idle"
    /\ op = "pixel_shuffle"
    /\ isEncrypt = 0
    /\ totalPixels = 16
    /\ GoldenOffset(16) = 10
    /\ indices # [k \in 1..16 |-> k - 1]
    /\ Len(written) = 16
    /\ Buffer(Len(dirs)) # Buffer(Len(dirs) - 1)

\* C10: the partner position j of every loop iteration equals
\* (i+offset) mod totalPixels and lies in [0,totalPixels), inside the index
\* buffer, with 0 <= offset <= totalPixels.
C10_Partner ==
    (pc = "loop" /\ i > 0) =>
        /\ GoldenOffset(totalPixels) >= 0
        /\ GoldenOffset(totalPixels) <= totalPixels
        /\ j = (i - 1 + GoldenOffset(totalPixels)) % totalPixels
        /\ j >= 0
        /\ j < totalPixels
        /\ j < Len(indices)

\* totalPixels = 1, where offset = 1 = totalPixels and j wraps to 0
C10_Witness ==
    /\ pc = "loop"
    /\ totalPixels = 1
    /\ GoldenOffset(1) = 1
    /\ i = 1
    /\ j = 0

(***************************************************************************)
(* Properties of the progress counter (under SpecProgress).                *)
(***************************************************************************)
\* C5: within one pixel_shuffle call (the first or a later one), successive
\* reads of the progress counter by the poller never decrease, and the
\* counter is exactly 100 once the call has returned.
C5_Monotone ==
    /\ (pc = "loop" /\ reads = 2) => prevRead <= curRead
    /\ (pc = "idle" /\ op = "pixel_shuffle") => g_progress = 100

\* C6: in every reachable state get_progress returns an integer in [0,100];
\* every value stored during the loop lies in [0,100].
C6_Range ==
    /\ g_progress \in 0..100
    /\ reads > 0 => curRead \in 0..100

=============================================================================
